---- MODULE Spec2Model ----
(***************************************************************************)
(* Transfer orchestrator of src/lib/orchestrator.ts.                       *)
(*                                                                         *)
(* The store is the module-level Map `transfers`.  Every async function    *)
(* runs atomically up to its next `await`; one action models one such      *)
(* segment.  A Transfer object is shared by reference between the Map and  *)
(* every invocation that holds it, so a mutation made by one invocation is *)
(* visible to all others at once and `transfers.set(id, transfer)` after   *)
(* the first one stores the same object again.                             *)
(*                                                                         *)
(* Timestamps are readings of a millisecond clock (new Date()); the clock  *)
(* may advance between any two readings.  Event ids (uuidv4) are fresh     *)
(* opaque values and are not represented.                                  *)
(*                                                                         *)
(* env fixes the environment of a behaviour: which transfers are           *)
(* committed (ids) and with which recipients, which transaction hashes     *)
(* the leg-2 provider reports (hashes), which quotes the callers of        *)
(* createTransfer hold (quotes), whether the clock advances during         *)
(* the run or every reading falls into one millisecond (clockRuns),        *)
(* whether calls arrive one at a time (serial), and whether webhooks       *)
(* arrive while createTransfer is still suspended at a provider call       *)
(* (early).                                                                *)
(*   Spec       one transfer, webhooks after the commit, handlers          *)
(*              interleaving at their awaits, one clock instant            *)
(*   SpecClock  one transfer, calls one at a time, advancing clock         *)
(*   SpecEarly  one transfer, webhooks at any time, one clock instant      *)
(*   SpecPair   two transfers, calls one at a time, one clock instant      *)
(*   SpecOverlap  two transfers, invocations for one suspended while       *)
(*              calls for the other arrive, one clock instant              *)
(*   SpecQuote  one getTransferQuote invocation and its three leg quotes   *)
(*   SpecBoundary  one transfer, notifications passing the signature       *)
(*              check of their webhook route before they are handled       *)
(***************************************************************************)
EXTENDS Integers, Sequences, FiniteSets, TLC

\* ------------------------------------------------------------------ bounds
MaxTime == 1
MaxTimeline == 9
MaxBridgeRuns == 1

\* ------------------------------------------------------------ value spaces
TransferIds == {1, 2}
\* id 0 is never issued by createTransfer: an id that is always unknown
WebhookIds == {0} \cup TransferIds
Slots == 1..MaxBridgeRuns

NoTime == -1
NoHash == "undefined"
TxHashes == {"0xaa", "0xbb"}

TransferStatus ==
  {"pending", "kyc_required", "processing", "bridging", "converting",
   "settling", "completed", "failed", "cancelled"}

PaytechStatuses == {"settled", "failed", "created"}
BridgeStates == {"payment_processed", "funds_received"}
TempoStatuses == {"settled", "completed", "failed", "rejected", "submitted"}

\* recipient of a TransferRequest: bankAccount? and mobileWallet? are optional
BankRecipient == [bankAccount |-> TRUE, mobileWallet |-> FALSE]
Recipients == {BankRecipient, [bankAccount |-> FALSE, mobileWallet |-> FALSE]}

\* Amounts are exact decimals: money in hundredths of a currency unit and
\* exchange rates in hundredths, so a product of an amount and a rate is in
\* units of 1/Scale hundredths.
Scale == 100

\* QuoteRequest.sendAmount values, leg fees and leg exchange rates
SendAmounts == {1000, 1001}
Fees == {0, 250, 2000}
Rates == {50, 150}

Providers == {"paytech", "bridge", "tempo"}

\* what a leg-quote call resolves with: PaytechFeeQuote has a fee only
LegQuotes(provider) ==
  IF provider = "paytech" THEN [fee : Fees]
  ELSE [exchangeRate : Rates, fee : Fees]

\* a TransferQuote, by the time at which it expires
Quotes == [expiresAt : 0..(MaxTime + 1)]

\* a quote that is unexpired at every time of a behaviour
FreshQuote == [expiresAt |-> MaxTime + 1]

\* a quote that expires at time 0: expired for a call made at a later time
StaleQuote == [expiresAt |-> 0]

\* TransferRequestSchema.parse of the POST route, on the recipient: both
\* bankAccount and mobileWallet are optional and no rule relates them
TransferRequestSchema(recipient) ==
  recipient \in [bankAccount : BOOLEAN, mobileWallet : BOOLEAN]

VARIABLES
  env,         \* the environment of this behaviour; never changes
  transfers,   \* the Map: stored transfer id -> Transfer
  now,         \* the wall clock
  cpc,         \* createTransfer invocation of each id: where it is suspended
  bruns,       \* in-flight handleBridgeWebhook invocations, by slot
  outcome,     \* how the most recently finished webhook handler call ended
  tempoCalls,  \* per id: number of createTempoPayment calls made
  providerOk,  \* per id: provider initiation calls that returned successfully
  completedAtWrites,  \* per id: number of assignments to transfer.completedAt
  quoting      \* the getTransferQuote invocation

vars == <<env, transfers, now, cpc, bruns, outcome, tempoCalls, providerOk,
          completedAtWrites, quoting>>

Stored == DOMAIN transfers

\* ------------------------------------------------------------------ clock
\* The k-th reading of the clock inside one segment, when the clock ticks
\* just before reading number p (p beyond the last reading: no tick).
Rd(p, k) == IF now < MaxTime /\ k >= p THEN now + 1 ELSE now

\* ---------------------------------------------------------------- helpers
\* a set that forgets every other key
PutAlone(f, k, v) == [x \in {k} |-> v]

\* map.set(k, v) and obj.k = v
Put(f, k, v) == [x \in (DOMAIN f) \cup {k} |-> IF x = k THEN v ELSE f[x]]

HasLeg(tr, l) == l \in DOMAIN tr.legs

\* clock positions at which a segment with k readings may see the tick
Ticks(k) == IF env.clockRuns THEN 1..(k + 1) ELSE {k + 1}

\* no invocation is suspended at an await
Quiet ==
  /\ \A i \in TransferIds : cpc[i] \in {"idle", "returned", "raised"}
  /\ \A s \in Slots : bruns[s].pc = "idle"

\* no createTransfer invocation is suspended at an await
Committed ==
  \A i \in TransferIds : cpc[i] \in {"idle", "returned", "raised"}

\* a new call may arrive
Arrives ==
  /\ env.serial => Quiet
  /\ ~env.early => Committed

\* An invocation of handleBridgeWebhook: its position, its arguments, and
\* (for stating properties) transfer.legs and the length of
\* transfer.timeline as they were when the handler was called
IdleRun ==
  [pc |-> "idle", id |-> 0, txHash |-> NoHash, legsBefore |-> <<>>,
   eventsBefore |-> 0]

\* addEvent with the assignment of line 148 left out
addEventStale(tr, status, message, metadata, ts, up) ==
  [tr EXCEPT !.timeline = Append(@, [timestamp |-> ts, status |-> status,
                                     message |-> message,
                                     metadata |-> metadata]),
             !.updatedAt = up]

addEvent(tr, status, message, metadata, ts, up) ==
  [tr EXCEPT !.timeline = Append(@, [timestamp |-> ts, status |-> status,
                                     message |-> message,
                                     metadata |-> metadata]),
             !.status = status,
             !.updatedAt = up]

\* transfer.legs.legN.f = v, guarded by `if (transfer.legs.legN)`
SetLegIf(tr, l, upd(_)) ==
  IF HasLeg(tr, l) THEN [tr EXCEPT !.legs[l] = upd(@)] ELSE tr

\* number of timeline events held by the store
Events ==
  LET RECURSIVE Sum(_)
      Sum(S) == IF S = {} THEN 0
                ELSE LET i == CHOOSE x \in S : TRUE
                     IN Len(transfers[i].timeline) + Sum(S \ {i})
  IN Sum(Stored)

\* the store has room for n more events
Room(n) == Events + n <= MaxTimeline

\* -------------------------------------------------------- getTransferQuote
\* x.toFixed(2) of a value held in units of 1/(Scale * Scale) hundredths:
\* the nearest hundredth, halves away from zero
ToFixed2(x) ==
  LET d == Scale * Scale
  IN IF x >= 0 THEN (2 * x + d) \div (2 * d)
     ELSE 0 - ((2 * (0 - x) + d) \div (2 * d))

\* line 68, in hundredths
afterPaytech(sendAmount, paytechQuote) == sendAmount - paytechQuote.fee

\* line 69 with the intermediate amount rounded to hundredths
usdcAmountRounded(after, bridgeQuote) ==
  LET x == after * bridgeQuote.exchangeRate - bridgeQuote.fee * Scale
  IN Scale * (IF x >= 0 THEN (2 * x + Scale) \div (2 * Scale)
              ELSE 0 - ((2 * (0 - x) + Scale) \div (2 * Scale)))

\* line 69, in units of 1/Scale hundredths
usdcAmount(after, bridgeQuote) ==
  after * bridgeQuote.exchangeRate - bridgeQuote.fee * Scale

\* line 70 with the leg-3 fee added instead of subtracted
receiveAmountFeeAdded(usdc, tempoQuote) ==
  (usdc + tempoQuote.fee * Scale) * tempoQuote.exchangeRate

\* line 70, in units of 1/(Scale * Scale) hundredths
receiveAmount(usdc, tempoQuote) ==
  (usdc - tempoQuote.fee * Scale) * tempoQuote.exchangeRate

\* lines 68-70 and 123: the unrounded chain and the returned receiveAmount
Chained(sendAmount, q1, q2, q3) ==
  receiveAmount(usdcAmount(afterPaytech(sendAmount, q1), q2), q3)

Receive(sendAmount, q1, q2, q3) == ToFixed2(Chained(sendAmount, q1, q2, q3))

\* The invocation: where it is, its request, the leg quotes resolved so
\* far, the legs whose call rejected, and the quote returned (none: {}).
\* unrounded is the value of line 70 behind the returned receiveAmount.
IdleQuote ==
  [pc |-> "idle", sendAmount |-> 0, resolved |-> <<>>, rejected |-> {},
   result |-> {}, unrounded |-> 0]

\* lines 55-65: the three leg-quote calls are issued and Promise.all awaited
GetTransferQuoteStart(sendAmount) ==
  /\ quoting.pc = "idle"
  /\ quoting' = [quoting EXCEPT !.pc = "awaiting", !.sendAmount = sendAmount]
  /\ UNCHANGED <<env, transfers, now, cpc, bruns, outcome, tempoCalls,
                 providerOk, completedAtWrites>>

\* one of the three calls resolves
LegQuoteResolved(provider, q) ==
  /\ quoting.pc = "awaiting"
  /\ provider \notin DOMAIN quoting.resolved
  /\ q \in LegQuotes(provider)
  /\ quoting' = [quoting EXCEPT !.resolved = Put(@, provider, q)]
  /\ UNCHANGED <<env, transfers, now, cpc, bruns, outcome, tempoCalls,
                 providerOk, completedAtWrites>>

\* a rejected call answered with a zero-fee quote at rate 1 instead
LegQuoteDefaulted(provider) ==
  /\ quoting.pc = "awaiting"
  /\ provider \notin DOMAIN quoting.resolved
  /\ quoting' =
       [quoting EXCEPT !.rejected = @ \cup {provider},
                       !.resolved =
                         Put(@, provider,
                             IF provider = "paytech" THEN [fee |-> 0]
                             ELSE [exchangeRate |-> Scale, fee |-> 0])]
  /\ UNCHANGED <<env, transfers, now, cpc, bruns, outcome, tempoCalls,
                 providerOk, completedAtWrites>>

\* one of the three calls rejects: Promise.all rejects and getTransferQuote
\* raises at line 61
LegQuoteRejected(provider) ==
  /\ quoting.pc = "awaiting"
  /\ provider \notin DOMAIN quoting.resolved
  /\ quoting' = [quoting EXCEPT !.pc = "raised",
                                !.rejected = @ \cup {provider}]
  /\ UNCHANGED <<env, transfers, now, cpc, bruns, outcome, tempoCalls,
                 providerOk, completedAtWrites>>

\* lines 67-136: all three have resolved; the amounts are chained and the
\* quote is returned
GetTransferQuoteReturn ==
  /\ quoting.pc = "awaiting"
  /\ DOMAIN quoting.resolved = Providers
  /\ LET q1 == quoting.resolved["paytech"]
         q2 == quoting.resolved["bridge"]
         q3 == quoting.resolved["tempo"]
     IN quoting' =
          [quoting EXCEPT
             !.pc = "returned",
             !.unrounded = Chained(quoting.sendAmount, q1, q2, q3),
             !.result =
               {[sendAmount |-> quoting.sendAmount,
                 receiveAmount |-> Receive(quoting.sendAmount, q1, q2, q3),
                 fees |-> [paytech |-> q1.fee]]}]
  /\ UNCHANGED <<env, transfers, now, cpc, bruns, outcome, tempoCalls,
                 providerOk, completedAtWrites>>

\* ------------------------------------------------------------------- Init
InitStore ==
  /\ transfers = <<>>
  /\ now = 0
  /\ cpc = [i \in TransferIds |-> "idle"]
  /\ bruns = [s \in Slots |-> IdleRun]
  /\ outcome = "none"
  /\ tempoCalls = [i \in TransferIds |-> 0]
  /\ providerOk = [i \in TransferIds |-> {}]
  /\ completedAtWrites = [i \in TransferIds |-> 0]
  /\ quoting = IdleQuote

Init ==
  /\ env = [ids |-> {1}, recipients |-> Recipients, hashes |-> TxHashes,
            quotes |-> {FreshQuote},
            clockRuns |-> FALSE, serial |-> FALSE, early |-> FALSE]
  /\ InitStore

InitClock ==
  /\ env = [ids |-> {1}, recipients |-> {BankRecipient}, hashes |-> {"0xaa"},
            quotes |-> {StaleQuote},
            clockRuns |-> TRUE, serial |-> TRUE, early |-> FALSE]
  /\ InitStore

InitEarly ==
  /\ env = [ids |-> {1}, recipients |-> {BankRecipient}, hashes |-> {"0xaa"},
            quotes |-> {FreshQuote},
            clockRuns |-> FALSE, serial |-> FALSE, early |-> TRUE]
  /\ InitStore

InitPair ==
  /\ env = [ids |-> {1, 2}, recipients |-> {BankRecipient},
            hashes |-> {"0xaa"}, quotes |-> {FreshQuote},
            clockRuns |-> FALSE, serial |-> TRUE, early |-> FALSE]
  /\ InitStore

InitOverlap ==
  /\ env = [ids |-> {1, 2}, recipients |-> {BankRecipient},
            hashes |-> {"0xaa"}, quotes |-> {FreshQuote},
            clockRuns |-> FALSE, serial |-> FALSE, early |-> FALSE]
  /\ InitStore

\* ---------------------------------------------------------- createTransfer
NewTransfer(id, recipient, quote, created, updated) ==
  [id |-> id, status |-> "pending", quote |-> quote,
   request |-> [recipient |-> recipient], legs |-> <<>>,
   timeline |-> <<>>, createdAt |-> created,
   updatedAt |-> updated, completedAt |-> NoTime]

\* lines 157-177 with the record stored as constructed, before any event is
\* appended to it
CreateTransferStartBare(id, recipient, quote, p) ==
  /\ Arrives
  /\ id \in env.ids
  /\ recipient \in env.recipients
  /\ TransferRequestSchema(recipient)
  /\ quote \in env.quotes
  /\ Room(2)
  /\ cpc[id] = "idle"
  /\ \A j \in TransferIds : j < id => cpc[j] # "idle"
  /\ transfers' = Put(transfers, id,
                      NewTransfer(id, recipient, quote, Rd(p, 1), Rd(p, 2)))
  /\ now' = Rd(p, 2)
  /\ cpc' = [cpc EXCEPT ![id] = "tempoAddr"]
  /\ UNCHANGED <<env, quoting, bruns, outcome, tempoCalls, providerOk,
                 completedAtWrites>>

\* lines 157-177: construct, first event, store, second event, then await
\* getTempoDepositAddress.  The request has passed the POST route's schema;
\* the quote is taken as the caller hands it in
CreateTransferStart(id, recipient, quote, p) ==
  /\ Arrives
  /\ id \in env.ids
  /\ recipient \in env.recipients
  /\ TransferRequestSchema(recipient)
  /\ quote \in env.quotes
  /\ Room(2)
  /\ cpc[id] = "idle"
  /\ \A j \in TransferIds : j < id => cpc[j] # "idle"
  /\ LET t0 == NewTransfer(id, recipient, quote, Rd(p, 1), Rd(p, 2))
         t1 == addEvent(t0, "processing", "initiated", "none",
                        Rd(p, 3), Rd(p, 4))
         t2 == addEvent(t1, "processing", "tempo_address", "none",
                        Rd(p, 5), Rd(p, 6))
     IN transfers' = Put(transfers, id, t2)
  /\ now' = Rd(p, 6)
  /\ cpc' = [cpc EXCEPT ![id] = "tempoAddr"]
  /\ UNCHANGED <<env, quoting, bruns, outcome, tempoCalls, providerOk,
                 completedAtWrites>>

\* lines 177-190: getTempoDepositAddress resolved (it falls back instead of
\* throwing); third event, then await createBridgeLiquidationAddress
CreateTransferTempoAddress(id, p) ==
  /\ cpc[id] = "tempoAddr"
  /\ Room(1)
  /\ transfers' = [transfers EXCEPT ![id] =
       addEvent(@, "processing", "bridge_address", "none", Rd(p, 1), Rd(p, 2))]
  /\ now' = Rd(p, 2)
  /\ cpc' = [cpc EXCEPT ![id] = "bridgeAddr"]
  /\ UNCHANGED <<env, quoting, bruns, outcome, tempoCalls, providerOk,
                 completedAtWrites>>

\* lines 190-217: the liquidation address was created; leg2 recorded, fourth
\* event, then await initiatePaytechTransfer
CreateTransferBridgeOk(id, p) ==
  /\ cpc[id] = "bridgeAddr"
  /\ Room(1)
  /\ LET t0 == transfers[id]
         t1 == [t0 EXCEPT !.legs = Put(@, "leg2",
                  [provider |-> "bridge", externalId |-> "bridge_liq",
                   status |-> "pending", startedAt |-> NoTime,
                   completedAt |-> NoTime, txHash |-> NoHash])]
         t2 == addEvent(t1, "processing", "paytech_init", "none",
                        Rd(p, 1), Rd(p, 2))
     IN transfers' = [transfers EXCEPT ![id] = t2]
  /\ now' = Rd(p, 2)
  /\ cpc' = [cpc EXCEPT ![id] = "paytech"]
  /\ providerOk' = [providerOk EXCEPT ![id] = @ \cup {"bridge"}]
  /\ UNCHANGED <<env, quoting, bruns, outcome, tempoCalls, completedAtWrites>>

\* lines 241-245 with the `throw error` of line 244 left out
CreateTransferCatchSwallow(id, from, p) ==
  /\ cpc[id] = from
  /\ Room(1)
  /\ transfers' = [transfers EXCEPT ![id] =
       addEvent(@, "failed", "transfer_failed", "none", Rd(p, 1), Rd(p, 2))]
  /\ now' = Rd(p, 2)
  /\ cpc' = [cpc EXCEPT ![id] = "returned"]
  /\ UNCHANGED <<env, quoting, bruns, outcome, tempoCalls, providerOk,
                 completedAtWrites>>

\* lines 241-245: the catch block, entered from a rejected provider call
CreateTransferCatch(id, from, p) ==
  /\ cpc[id] = from
  /\ Room(1)
  /\ transfers' = [transfers EXCEPT ![id] =
       addEvent(@, "failed", "transfer_failed", "none", Rd(p, 1), Rd(p, 2))]
  /\ now' = Rd(p, 2)
  /\ cpc' = [cpc EXCEPT ![id] = "raised"]
  /\ UNCHANGED <<env, quoting, bruns, outcome, tempoCalls, providerOk,
                 completedAtWrites>>

\* createBridgeLiquidationAddress rejected and the error ignored: no leg2 is
\* recorded and createTransfer goes on to initiatePaytechTransfer
CreateTransferBridgeSkip(id, p) ==
  /\ cpc[id] = "bridgeAddr"
  /\ Room(1)
  /\ transfers' = [transfers EXCEPT ![id] =
       addEvent(@, "processing", "paytech_init", "none", Rd(p, 1), Rd(p, 2))]
  /\ now' = Rd(p, 2)
  /\ cpc' = [cpc EXCEPT ![id] = "paytech"]
  /\ UNCHANGED <<env, quoting, bruns, outcome, tempoCalls, providerOk,
                 completedAtWrites>>

\* createBridgeLiquidationAddress rejected
CreateTransferBridgeFail(id, p) == CreateTransferCatch(id, "bridgeAddr", p)

\* initiatePaytechTransfer rejected
CreateTransferPaytechFail(id, p) == CreateTransferCatch(id, "paytech", p)

\* lines 217-239: initiatePaytechTransfer resolved; leg1 recorded, fifth
\* event, leg3 pre-created, stored, returned
CreateTransferPaytechOk(id, p) ==
  /\ cpc[id] = "paytech"
  /\ Room(1)
  /\ LET t0 == transfers[id]
         t1 == [t0 EXCEPT !.legs = Put(@, "leg1",
                  [provider |-> "paytech", externalId |-> "paytech_transfer",
                   status |-> "processing", startedAt |-> Rd(p, 1),
                   completedAt |-> NoTime, txHash |-> NoHash])]
         t2 == addEvent(t1, "processing", "paytech_collecting",
                        "paytechTransferId", Rd(p, 2), Rd(p, 3))
         t3 == [t2 EXCEPT !.legs = Put(@, "leg3",
                  [provider |-> "tempo", externalId |-> "tempo_pending",
                   status |-> "pending", startedAt |-> NoTime,
                   completedAt |-> NoTime, txHash |-> NoHash])]
     IN transfers' = [transfers EXCEPT ![id] = t3]
  /\ now' = Rd(p, 3)
  /\ cpc' = [cpc EXCEPT ![id] = "returned"]
  /\ providerOk' = [providerOk EXCEPT ![id] = @ \cup {"paytech"}]
  /\ UNCHANGED <<env, quoting, bruns, outcome, tempoCalls, completedAtWrites>>

\* ---------------------------------------------------------------- webhooks
\* `if (!transfer) throw new Error(...)`: nothing is written
\* the lookup failure swallowed: the handler returns as if nothing happened
NotFoundSilent ==
  /\ outcome' = "returned"
  /\ UNCHANGED <<env, quoting, transfers, now, cpc, bruns, tempoCalls,
                 providerOk, completedAtWrites>>

NotFound ==
  /\ outcome' = "raised"
  /\ UNCHANGED <<env, quoting, transfers, now, cpc, bruns, tempoCalls,
                 providerOk, completedAtWrites>>

\* lines 259-269 with the 'failed' branch assigning transfer.status directly
\* instead of calling addEvent
PaytechApplySilent(tr, status, p) ==
  IF status = "settled"
  THEN addEvent(SetLegIf(tr, "leg1",
                  LAMBDA l : [l EXCEPT !.status = "completed",
                                       !.completedAt = Rd(p, 1)]),
                "bridging", "fiat_received", "none", Rd(p, 2), Rd(p, 3))
  ELSE IF status = "failed"
  THEN [SetLegIf(tr, "leg1", LAMBDA l : [l EXCEPT !.status = "failed"])
          EXCEPT !.status = "failed"]
  ELSE tr

\* lines 259-269 applied to the transfer object
PaytechApply(tr, status, p) ==
  IF status = "settled"
  THEN addEvent(SetLegIf(tr, "leg1",
                  LAMBDA l : [l EXCEPT !.status = "completed",
                                       !.completedAt = Rd(p, 1)]),
                "bridging", "fiat_received", "none", Rd(p, 2), Rd(p, 3))
  ELSE IF status = "failed"
  THEN addEvent(SetLegIf(tr, "leg1",
                  LAMBDA l : [l EXCEPT !.status = "failed"]),
                "failed", "paytech_failed", "none", Rd(p, 2), Rd(p, 3))
  ELSE tr

\* handlePaytechWebhook leaving every id mapped to the transfer it updated
HandlePaytechWebhookAll(id, status, p) ==
  /\ Arrives
  /\ IF id \notin Stored
     THEN NotFound
     ELSE /\ status \in {"settled", "failed"} => Room(1)
          /\ transfers' =
               [i \in Stored |->
                  IF i = id \/ status \in {"settled", "failed"}
                  THEN PaytechApply(transfers[id], status, p)
                  ELSE transfers[i]]
          /\ now' = IF status \in {"settled", "failed"} THEN Rd(p, 3) ELSE now
          /\ outcome' = "returned"
          /\ UNCHANGED <<env, quoting, cpc, bruns, tempoCalls, providerOk,
                         completedAtWrites>>

\* handlePaytechWebhook has no await: one atomic segment
HandlePaytechWebhook(id, status, p) ==
  /\ Arrives
  /\ IF id \notin Stored
     THEN NotFound
     ELSE /\ status \in {"settled", "failed"} => Room(1)
          /\ transfers' =
               [transfers EXCEPT ![id] = PaytechApply(@, status, p)]
          /\ now' = IF status \in {"settled", "failed"} THEN Rd(p, 3) ELSE now
          /\ outcome' = "returned"
          /\ UNCHANGED <<env, quoting, cpc, bruns, tempoCalls, providerOk,
                         completedAtWrites>>

\* lines 344-355 with the assignment of line 349 left out
TempoApplyUnstamped(tr, status, p) ==
  IF status \in {"settled", "completed"}
  THEN addEvent(SetLegIf(tr, "leg3",
                  LAMBDA l : [l EXCEPT !.status = "completed",
                                       !.completedAt = Rd(p, 1)]),
                "completed", "transfer_complete", "none", Rd(p, 3), Rd(p, 4))
  ELSE IF status \in {"failed", "rejected"}
  THEN addEvent(SetLegIf(tr, "leg3",
                  LAMBDA l : [l EXCEPT !.status = "failed"]),
                "failed", "tempo_failed", "none", Rd(p, 3), Rd(p, 4))
  ELSE tr

\* lines 344-355 applied to the transfer object
TempoApply(tr, status, p) ==
  IF status \in {"settled", "completed"}
  THEN LET t1 == SetLegIf(tr, "leg3",
                    LAMBDA l : [l EXCEPT !.status = "completed",
                                         !.completedAt = Rd(p, 1)])
           t2 == [t1 EXCEPT !.completedAt = Rd(p, 2)]
       IN addEvent(t2, "completed", "transfer_complete", "none",
                   Rd(p, 3), Rd(p, 4))
  ELSE IF status \in {"failed", "rejected"}
  THEN addEvent(SetLegIf(tr, "leg3",
                  LAMBDA l : [l EXCEPT !.status = "failed"]),
                "failed", "tempo_failed", "none", Rd(p, 3), Rd(p, 4))
  ELSE tr

\* handleTempoWebhook raising on a status token it does not recognise
HandleTempoWebhookStrict(id, status, p) ==
  /\ Arrives
  /\ IF id \notin Stored \/ status = "submitted"
     THEN NotFound
     ELSE /\ Room(1)
          /\ transfers' = [transfers EXCEPT ![id] = TempoApply(@, status, p)]
          /\ now' = Rd(p, 4)
          /\ completedAtWrites' =
               [completedAtWrites EXCEPT ![id] =
                  IF status \in {"settled", "completed"} THEN @ + 1 ELSE @]
          /\ outcome' = "returned"
          /\ UNCHANGED <<env, quoting, cpc, bruns, tempoCalls, providerOk>>

\* handleTempoWebhook has no await: one atomic segment
HandleTempoWebhook(id, status, p) ==
  /\ Arrives
  /\ IF id \notin Stored
     THEN NotFound
     ELSE /\ status \in {"settled", "completed", "failed", "rejected"}
               => Room(1)
          /\ transfers' = [transfers EXCEPT ![id] = TempoApply(@, status, p)]
          /\ now' = IF status \in {"settled", "completed", "failed", "rejected"}
                    THEN Rd(p, 4) ELSE now
          /\ completedAtWrites' =
               [completedAtWrites EXCEPT ![id] =
                  IF status \in {"settled", "completed"} THEN @ + 1 ELSE @]
          /\ outcome' = "returned"
          /\ UNCHANGED <<env, quoting, cpc, bruns, tempoCalls, providerOk>>

\* lines 287-301 with leg1 marked completed along with leg2
BridgeApplyWithLeg1(tr, txHash, p) ==
  LET t0 == SetLegIf(tr, "leg1",
               LAMBDA l : [l EXCEPT !.status = "completed",
                                    !.completedAt = Rd(p, 1)])
      t1 == SetLegIf(t0, "leg2",
               LAMBDA l : [l EXCEPT !.status = "completed",
                                    !.completedAt = Rd(p, 1),
                                    !.txHash = txHash])
      t2 == addEvent(t1, "converting", "bridge_converted", txHash,
                     Rd(p, 2), Rd(p, 3))
  IN addEvent(t2, "settling", "tempo_initiating", "none", Rd(p, 4), Rd(p, 5))

\* lines 287-301 applied to the transfer object: leg2 completed, the
\* 'converting' event and, inside the try, the 'settling' event
BridgeApply(tr, txHash, p) ==
  LET t1 == SetLegIf(tr, "leg2",
               LAMBDA l : [l EXCEPT !.status = "completed",
                                    !.completedAt = Rd(p, 1),
                                    !.txHash = txHash])
      t2 == addEvent(t1, "converting", "bridge_converted", txHash,
                     Rd(p, 2), Rd(p, 3))
  IN addEvent(t2, "settling", "tempo_initiating", "none", Rd(p, 4), Rd(p, 5))

FreeSlot(s) ==
  /\ bruns[s].pc = "idle"
  /\ \A r \in Slots : r < s => bruns[r].pc # "idle"

\* lines 284-307: lookup, first mutations, then await getTempoQuote; for any
\* other state token the handler falls through to the final set and returns
HandleBridgeWebhook(s, id, state, txHash, p) ==
  /\ Arrives
  /\ FreeSlot(s)
  /\ txHash \in env.hashes
  /\ IF id \notin Stored
     THEN NotFound
     ELSE IF state = "payment_processed"
     THEN /\ Room(2)
          /\ transfers' = [transfers EXCEPT ![id] = BridgeApply(@, txHash, p)]
          /\ now' = Rd(p, 5)
          /\ bruns' = [bruns EXCEPT ![s] =
                         [pc |-> "quote", id |-> id, txHash |-> txHash,
                          legsBefore |-> transfers[id].legs,
                          eventsBefore |-> Len(transfers[id].timeline)]]
          /\ UNCHANGED <<env, quoting, cpc, outcome, tempoCalls, providerOk,
                         completedAtWrites>>
     ELSE /\ outcome' = "returned"
          /\ UNCHANGED <<env, quoting, transfers, now, cpc, bruns, tempoCalls,
                         providerOk, completedAtWrites>>

\* lines 303-318: getTempoQuote resolved; createTempoPayment is called and
\* awaited
BridgeCallTempo(s) ==
  /\ bruns[s].pc = "quote"
  /\ bruns' = [bruns EXCEPT ![s].pc = "pay"]
  /\ tempoCalls' = [tempoCalls EXCEPT ![bruns[s].id] = @ + 1]
  /\ UNCHANGED <<env, quoting, transfers, now, cpc, outcome, providerOk,
                 completedAtWrites>>

\* `recipient.bankAccount || recipient.mobileWallet!` (line 309) is defined
HasRecipientAccount(tr) ==
  tr.request.recipient.bankAccount \/ tr.request.recipient.mobileWallet

\* lines 320-330: createTempoPayment resolved; leg3 takes the provider's id
BridgeTempoOk(s, p) ==
  /\ bruns[s].pc = "pay"
  /\ HasRecipientAccount(transfers[bruns[s].id])
  /\ transfers' = [transfers EXCEPT ![bruns[s].id] =
       SetLegIf(@, "leg3",
         LAMBDA l : [l EXCEPT !.externalId = "tempo_payment",
                              !.status = "processing",
                              !.startedAt = Rd(p, 1)])]
  /\ now' = IF HasLeg(transfers[bruns[s].id], "leg3") THEN Rd(p, 1) ELSE now
  /\ providerOk' = [providerOk EXCEPT ![bruns[s].id] = @ \cup {"tempo"}]
  /\ outcome' = "returned"
  /\ bruns' = [bruns EXCEPT ![s] = IdleRun]
  /\ UNCHANGED <<env, quoting, cpc, tempoCalls, completedAtWrites>>

\* lines 325-330 with the catch block taking back the 'settling' event
\* before it records the failure
BridgeTempoFailRollback(s, p) ==
  /\ bruns[s].pc = "pay"
  /\ Room(1)
  /\ transfers' = [transfers EXCEPT ![bruns[s].id] =
       addEvent([@ EXCEPT !.timeline = SubSeq(@, 1, Len(@) - 1)],
                "failed", "tempo_settlement_failed", "none",
                Rd(p, 1), Rd(p, 2))]
  /\ now' = Rd(p, 2)
  /\ outcome' = "returned"
  /\ bruns' = [bruns EXCEPT ![s] = IdleRun]
  /\ UNCHANGED <<env, quoting, cpc, tempoCalls, providerOk, completedAtWrites>>

\* lines 325-330: createTempoPayment rejected (provider error, timeout, or
\* the TypeError of `'accountName' in undefined`); the catch records the
\* failure and the handler returns
BridgeTempoFail(s, p) ==
  /\ bruns[s].pc = "pay"
  /\ Room(1)
  /\ transfers' = [transfers EXCEPT ![bruns[s].id] =
       addEvent(@, "failed", "tempo_settlement_failed", "none",
                Rd(p, 1), Rd(p, 2))]
  /\ now' = Rd(p, 2)
  /\ outcome' = "returned"
  /\ bruns' = [bruns EXCEPT ![s] = IdleRun]
  /\ UNCHANGED <<env, quoting, cpc, tempoCalls, providerOk, completedAtWrites>>

\* ------------------------------------------------------------- getTransfer
\* transfers.get(id): the stored transfer, or nothing (undefined)
getTransfer(id) == IF id \in Stored THEN {transfers[id]} ELSE {}

\* ------------------------------------------------------ webhook boundary
\* the secret shared with the provider, and a key an outsider may use
WebhookSecret == "secret"
Keys == {WebhookSecret, "guessed"}

\* crypto.createHmac('sha256', key).update(payload).digest('hex'): a digest
\* determined by key and payload, different for different pairs
Hmac(key, payload) == <<key, payload>>

\* the body of a notification
Payload(id, token) == [transferId |-> id, status |-> token]

\* what may arrive in the signature header: nothing (the empty string), the
\* digest of some payload under some key
Signatures(id, tokens) ==
  {<<>>} \cup {Hmac(k, Payload(id, tk)) : k \in Keys, tk \in tokens}

\* verifyPaytechWebhook: `signature.length > 0`
verifyPaytechWebhook(payload, signature) == Len(signature) > 0

\* lines 12-21 of the bridge route: the header equals the digest of the body
\* under BRIDGE_WEBHOOK_SECRET
BridgeSignatureValid(payload, signature) ==
  signature = Hmac(WebhookSecret, payload)

\* the notification is turned away at the boundary: nothing is written
Rejected ==
  /\ outcome' = "rejected"
  /\ UNCHANGED <<env, quoting, transfers, now, cpc, bruns, tempoCalls,
                 providerOk, completedAtWrites>>

\* The leg-1 webhook route: verifyPaytechWebhook on body and header, then
\* handlePaytechWebhook
PaytechWebhookRoute(id, status, signature, p) ==
  IF verifyPaytechWebhook(Payload(id, status), signature)
  THEN HandlePaytechWebhook(id, status, p)
  ELSE Arrives /\ Rejected

\* app.post('/webhooks/bridge'): 401 on a wrong signature; otherwise the
\* event is logged and acknowledged, and no orchestrator function is called
BridgeWebhookRoute(id, state, signature) ==
  /\ Arrives
  /\ IF BridgeSignatureValid(Payload(id, state), signature)
     THEN /\ outcome' = "returned"
          /\ UNCHANGED <<env, quoting, transfers, now, cpc, bruns, tempoCalls,
                         providerOk, completedAtWrites>>
     ELSE Rejected

\* ------------------------------------------------------------------- Next
Next ==
  \/ \E id \in TransferIds, r \in Recipients, q \in Quotes, p \in Ticks(6) :
       CreateTransferStart(id, r, q, p)
  \/ \E id \in TransferIds, p \in Ticks(2) : CreateTransferTempoAddress(id, p)
  \/ \E id \in TransferIds, p \in Ticks(2) : CreateTransferBridgeOk(id, p)
  \/ \E id \in TransferIds, p \in Ticks(2) : CreateTransferBridgeFail(id, p)
  \/ \E id \in TransferIds, p \in Ticks(3) : CreateTransferPaytechOk(id, p)
  \/ \E id \in TransferIds, p \in Ticks(2) : CreateTransferPaytechFail(id, p)
  \/ \E id \in WebhookIds, st \in PaytechStatuses, p \in Ticks(3) :
       HandlePaytechWebhook(id, st, p)
  \/ \E s \in Slots, id \in WebhookIds, st \in BridgeStates,
        h \in TxHashes, p \in Ticks(5) :
       HandleBridgeWebhook(s, id, st, h, p)
  \/ \E s \in Slots : BridgeCallTempo(s)
  \/ \E s \in Slots, p \in Ticks(1) : BridgeTempoOk(s, p)
  \/ \E s \in Slots, p \in Ticks(2) : BridgeTempoFail(s, p)
  \/ \E id \in WebhookIds, st \in TempoStatuses, p \in Ticks(4) :
       HandleTempoWebhook(id, st, p)

Spec == Init /\ [][Next]_vars

SpecClock == InitClock /\ [][Next]_vars

SpecEarly == InitEarly /\ [][Next]_vars

SpecPair == InitPair /\ [][Next]_vars

SpecOverlap == InitOverlap /\ [][Next]_vars

NextQuote ==
  \/ \E a \in SendAmounts : GetTransferQuoteStart(a)
  \/ \E pr \in Providers, f \in Fees, r \in Rates :
       \/ LegQuoteResolved(pr, [fee |-> f])
       \/ LegQuoteResolved(pr, [exchangeRate |-> r, fee |-> f])
  \/ \E pr \in Providers : LegQuoteRejected(pr)
  \/ GetTransferQuoteReturn

SpecQuote == Init /\ [][NextQuote]_vars

NextBoundary ==
  \/ \E id \in TransferIds, r \in Recipients, q \in Quotes, p \in Ticks(6) :
       CreateTransferStart(id, r, q, p)
  \/ \E id \in TransferIds, p \in Ticks(2) : CreateTransferTempoAddress(id, p)
  \/ \E id \in TransferIds, p \in Ticks(2) : CreateTransferBridgeOk(id, p)
  \/ \E id \in TransferIds, p \in Ticks(2) : CreateTransferBridgeFail(id, p)
  \/ \E id \in TransferIds, p \in Ticks(3) : CreateTransferPaytechOk(id, p)
  \/ \E id \in TransferIds, p \in Ticks(2) : CreateTransferPaytechFail(id, p)
  \/ \E id \in WebhookIds, st \in PaytechStatuses, p \in Ticks(3) :
       \E sig \in Signatures(id, PaytechStatuses) :
         PaytechWebhookRoute(id, st, sig, p)
  \/ \E id \in WebhookIds, st \in BridgeStates :
       \E sig \in Signatures(id, BridgeStates) :
         BridgeWebhookRoute(id, st, sig)

SpecBoundary == Init /\ [][NextBoundary]_vars

TypeOK ==
  /\ now \in 0..MaxTime
  /\ \A i \in Stored : transfers[i].status \in TransferStatus

\* ================================================================ claims
Terminal == {"completed", "failed", "cancelled"}

\* a call of one of the three webhook handlers with transfer id `id`: the
\* segment that runs from the call to the handler's first await or return
PaytechCall(id) ==
  \E st \in PaytechStatuses, p \in Ticks(3) : HandlePaytechWebhook(id, st, p)

BridgeCall(id) ==
  \E s \in Slots, st \in BridgeStates, h \in TxHashes, p \in Ticks(5) :
    HandleBridgeWebhook(s, id, st, h, p)

TempoCall(id) ==
  \E st \in TempoStatuses, p \in Ticks(4) : HandleTempoWebhook(id, st, p)

WebhookCall(id) == PaytechCall(id) \/ BridgeCall(id) \/ TempoCall(id)

\* C1: once a stored transfer's status is completed, failed or cancelled, no
\* later call of a webhook handler changes its status.
C1_TerminalAbsorbing ==
  [][\A i \in Stored :
       (/\ transfers[i].status \in Terminal
        /\ \E id \in WebhookIds : WebhookCall(id))
         => transfers'[i].status = transfers[i].status]_vars

\* C2: a completion webhook delivered to a transfer that is already
\* completed appends no timeline event and leaves status and completedAt as
\* the first delivery set them.
C2_IdempotentCompletion ==
  [][\A i \in Stored :
       (/\ transfers[i].status = "completed"
        /\ \E st \in {"settled", "completed"}, p \in Ticks(4) :
             HandleTempoWebhook(i, st, p))
         => /\ transfers'[i].timeline = transfers[i].timeline
            /\ transfers'[i].status = transfers[i].status
            /\ transfers'[i].completedAt = transfers[i].completedAt]_vars

\* C3: every stored transfer has a non-empty timeline and its status is the
\* status of the last timeline event.
C3_StatusIsLastEvent ==
  \A i \in Stored :
    /\ transfers[i].timeline # <<>>
    /\ transfers[i].status =
         transfers[i].timeline[Len(transfers[i].timeline)].status

\* C3 witness: a stored transfer whose status was moved on by a webhook
C3_Witness ==
  \E i \in Stored :
    /\ transfers[i].status = "settling"
    /\ Len(transfers[i].timeline) >= 6

\* the forward steps of a leg status: pending -> processing -> done
LegForward(a, b) ==
  \/ a = b
  \/ a = "pending" /\ b = "processing"
  \/ a = "processing" /\ b \in {"completed", "failed"}

\* C4: a leg status only moves pending -> processing -> {completed, failed}:
\* it never leaves completed or failed, never returns to pending, and never
\* becomes completed or failed without having been processing.
C4_LegMonotonic ==
  [][\A i \in Stored : \A l \in DOMAIN transfers[i].legs :
       /\ l \in DOMAIN transfers'[i].legs
       /\ LegForward(transfers[i].legs[l].status,
                     transfers'[i].legs[l].status)]_vars

\* C5: while an invocation of handleBridgeWebhook is between its first and
\* its last mutation of a transfer, no other webhook handler invocation
\* changes that transfer.
C5_Linearized ==
  [][\A s \in Slots :
       (/\ bruns[s].pc \in {"quote", "pay"}
        /\ \E id \in WebhookIds : WebhookCall(id))
         => transfers'[bruns[s].id] = transfers[bruns[s].id]]_vars

Chain ==
  <<"pending", "processing", "bridging", "converting", "settling",
    "completed">>

Rank(st) == CHOOSE k \in 1..Len(Chain) : Chain[k] = st

InChain(st) == \E k \in 1..Len(Chain) : Chain[k] = st

\* C6: along pending < processing < bridging < converting < settling <
\* completed a transfer's status never moves from a later state to an earlier
\* one.
C6_StatusNeverRegresses ==
  [][\A i \in Stored :
       LET a == transfers[i].status
           b == transfers'[i].status
       IN (InChain(a) /\ InChain(b)) => Rank(a) <= Rank(b)]_vars

\* C7: completedAt is assigned at most once per transfer.
C7_CompletedAtOnce == \A i \in TransferIds : completedAtWrites[i] <= 1

\* C8: a webhook handler called with an id that is not in the store raises
\* an error and leaves the store unchanged.
C8_UnknownId ==
  [][\A id \in WebhookIds :
       (id \notin Stored /\ WebhookCall(id))
         => (transfers' = transfers /\ outcome' = "raised")]_vars

\* C8 witness: a handler has raised while the store holds a transfer
C8_Witness == outcome = "raised" /\ Stored # {}

\* the timeline shows a leg-1 'failed' webhook handled after the commit
\* (after the event that createTransfer appends when leg 1 is initiated)
Leg1FailedAfterCommit(tr) ==
  \E j, k \in 1..Len(tr.timeline) :
    /\ j < k
    /\ tr.timeline[j].message = "paytech_collecting"
    /\ tr.timeline[k].message = "paytech_failed"

\* C9: a leg-1 'failed' webhook on a committed transfer makes status and
\* leg1.status failed, and after it no createTempoPayment call is made for
\* the transfer.
C9_NoInitiationAfterLeg1Failure ==
  [][\A i \in Stored :
       /\ (cpc[i] = "returned"
             /\ \E p \in Ticks(3) : HandlePaytechWebhook(i, "failed", p))
            => (transfers'[i].status = "failed"
                 /\ transfers'[i].legs["leg1"].status = "failed")
       /\ Leg1FailedAfterCommit(transfers[i])
            => tempoCalls'[i] = tempoCalls[i]]_vars

\* legs restricted to leg l: empty when the leg is unset
LegOf(legs, l) == [x \in (DOMAIN legs) \cap {l} |-> legs[x]]

\* C10: a handleBridgeWebhook run for 'payment_processed' whose leg-3
\* initiation raises ends with status failed, leg2 completed carrying the
\* event's txHash, and leg3 as it was before the run.  Stated for the runs
\* that were called on a transfer with leg2 and leg3 already recorded.
C10_PartialFailurePreserved ==
  [][\A s \in Slots, p \in Ticks(2) :
       (/\ BridgeTempoFail(s, p)
        /\ {"leg2", "leg3"} \subseteq DOMAIN bruns[s].legsBefore)
         => LET tr == transfers'[bruns[s].id]
            IN /\ tr.status = "failed"
               /\ tr.legs["leg2"].status = "completed"
               /\ tr.legs["leg2"].txHash = bruns[s].txHash
               /\ LegOf(tr.legs, "leg3") =
                    LegOf(bruns[s].legsBefore, "leg3")]_vars

\* the messages of a timeline, in order
Messages(tr) == [k \in 1..Len(tr.timeline) |-> tr.timeline[k].message]

\* the events of a committed transfer that then receives leg-1 'settled',
\* leg-2 'payment_processed' and leg-3 'settled'/'completed', in this order
HappyPath ==
  <<"initiated", "tempo_address", "bridge_address", "paytech_init",
    "paytech_collecting", "fiat_received", "bridge_converted",
    "tempo_initiating", "transfer_complete">>

\* no handleBridgeWebhook invocation for transfer i is suspended
NoRunFor(i) == \A s \in Slots : bruns[s].pc = "idle" \/ bruns[s].id # i

\* the statuses of the timeline never step back along the chain
TimelineNonDecreasing(tr) ==
  \A j, k \in 1..Len(tr.timeline) :
    j < k => /\ InChain(tr.timeline[j].status)
             /\ InChain(tr.timeline[k].status)
             /\ Rank(tr.timeline[j].status) <= Rank(tr.timeline[k].status)

\* C11: with handlers run one at a time, a committed transfer that receives
\* leg-1 'settled' is bridging; after leg-2 'payment_processed' with a
\* successful leg-3 initiation it is settling and leg3 holds the provider's
\* externalId; after leg-3 'completed' it is completed with completedAt set;
\* and the statuses of its timeline are non-decreasing along the chain.
C11_HappyPath ==
  \A i \in Stored :
    LET tr == transfers[i]
    IN /\ Messages(tr) = SubSeq(HappyPath, 1, 6) => tr.status = "bridging"
       /\ (Messages(tr) = SubSeq(HappyPath, 1, 8)
             /\ NoRunFor(i) /\ "tempo" \in providerOk[i])
            => /\ tr.status = "settling"
               /\ tr.legs["leg3"].externalId = "tempo_payment"
       /\ (Messages(tr) = HappyPath /\ "tempo" \in providerOk[i])
            => /\ tr.status = "completed"
               /\ tr.completedAt # NoTime
               /\ tr.legs["leg3"].externalId = "tempo_payment"
               /\ TimelineNonDecreasing(tr)

\* C11 witness: the whole happy path has been delivered to a transfer
C11_Witness ==
  \E i \in Stored :
    /\ Messages(transfers[i]) = HappyPath
    /\ "tempo" \in providerOk[i]
    /\ transfers[i].status = "completed"

\* C12: createTempoPayment is called at most once per transfer, whatever
\* webhooks are delivered (duplicates of leg-2 'payment_processed' and
\* deliveries after a failed leg-3 initiation included).
C12_NoRetry == \A i \in TransferIds : tempoCalls[i] <= 1

\* the provider whose initiation call gives leg l its externalId
ProviderOf(l) ==
  IF l = "leg1" THEN "paytech" ELSE IF l = "leg2" THEN "bridge" ELSE "tempo"

\* C13: a recorded leg carries an externalId only after the initiation call
\* to its provider has returned successfully for this transfer.
C13_ExternalIdAfterSuccess ==
  \A i \in Stored : \A l \in DOMAIN transfers[i].legs :
    ProviderOf(l) \in providerOk[i]

\* C14: a handleBridgeWebhook run whose leg-3 initiation raised has appended
\* no event with status settling to the timeline.
C14_SettlingOnlyOnSuccess ==
  [][\A s \in Slots, p \in Ticks(2) :
       BridgeTempoFail(s, p)
         => LET tl == transfers'[bruns[s].id].timeline
            IN \A k \in 1..Len(tl) :
                 k > bruns[s].eventsBefore => tl[k].status # "settling"]_vars

\* the leg a handler's webhooks are about
PaytechLegCall(i) == PaytechCall(i) /\ ~HasLeg(transfers[i], "leg1")

BridgeLegCall(i) == BridgeCall(i) /\ ~HasLeg(transfers[i], "leg2")

TempoLegCall(i) == TempoCall(i) /\ ~HasLeg(transfers[i], "leg3")

\* C15: a leg-N webhook delivered to a stored transfer whose legs.legN is
\* unset causes no status transition.
C15_LegExistence ==
  [][\A i \in Stored :
       (PaytechLegCall(i) \/ BridgeLegCall(i) \/ TempoLegCall(i))
         => transfers'[i].status = transfers[i].status]_vars

\* the last event of a timeline
LastEvent(tr) == tr.timeline[Len(tr.timeline)]

\* C16: in every step, a transfer whose status changes has had an event
\* appended, and a transfer that has had events appended has the status of
\* the last appended event; a transfer entering the store counts from the
\* status and the empty timeline it was constructed with.
C16_StatusChangeHasEvent ==
  [][\A i \in DOMAIN transfers' :
       LET new == transfers'[i]
           oldLen == IF i \in Stored THEN Len(transfers[i].timeline) ELSE 0
           oldStatus == IF i \in Stored THEN transfers[i].status ELSE "pending"
       IN /\ Len(new.timeline) >= oldLen
          /\ new.status # oldStatus => Len(new.timeline) > oldLen
          /\ Len(new.timeline) > oldLen
               => new.status = LastEvent(new).status]_vars

\* C16 witness: a webhook has changed the status of a committed transfer
C16_Witness ==
  \E i \in Stored :
    /\ transfers[i].status = "bridging"
    /\ LastEvent(transfers[i]).message = "fiat_received"
    /\ cpc[i] = "returned"

\* C17: every step leaves each stored transfer in the store with its old
\* timeline as a prefix of the new one.
C17_AppendOnly ==
  [][\A i \in Stored :
       /\ i \in DOMAIN transfers'
       /\ Len(transfers'[i].timeline) >= Len(transfers[i].timeline)
       /\ SubSeq(transfers'[i].timeline, 1, Len(transfers[i].timeline))
            = transfers[i].timeline]_vars

\* C17 witness: a handler has appended to a timeline after an earlier
\* handler run had appended to it
C17_Witness ==
  \E i \in Stored :
    /\ LastEvent(transfers[i]).message = "tempo_settlement_failed"
    /\ Len(transfers[i].timeline) >= 7

\* C18: every stored transfer's updatedAt is the timestamp of the last event
\* of its timeline.
C18_UpdatedAtIsLastTimestamp ==
  \A i \in Stored :
    transfers[i].updatedAt = LastEvent(transfers[i]).timestamp

\* C19: when a provider call awaited by createTransfer rejects, the transfer
\* is in the store under its id with status failed and a 'failed' event as
\* its last timeline entry, and createTransfer raises.
C19_CreationFailure ==
  [][\A id \in TransferIds, p \in Ticks(2) :
       (CreateTransferBridgeFail(id, p) \/ CreateTransferPaytechFail(id, p))
         => /\ id \in DOMAIN transfers'
            /\ transfers'[id].id = id
            /\ transfers'[id].status = "failed"
            /\ LastEvent(transfers'[id]).status = "failed"
            /\ cpc'[id] = "raised"]_vars

\* C19 witness: createTransfer has raised from its catch block
C19_Witness ==
  \E i \in Stored :
    /\ cpc[i] = "raised"
    /\ LastEvent(transfers[i]).message = "transfer_failed"

\* C20: a handleBridgeWebhook run whose leg-3 initiation raised ends by
\* raising the error to its caller.
C20_BridgeHandlerRaises ==
  [][\A s \in Slots, p \in Ticks(2) :
       BridgeTempoFail(s, p) => outcome' = "raised"]_vars

\* C21: legs.leg1 exists only if legs.leg2 exists, initiatePaytechTransfer
\* is called (and has returned) only after createBridgeLiquidationAddress
\* has succeeded, and a createTransfer that raised without it leaves legs
\* empty.
C21_LegOrderAtCommit ==
  \A i \in Stored :
    /\ HasLeg(transfers[i], "leg1") => HasLeg(transfers[i], "leg2")
    /\ (cpc[i] = "paytech" \/ "paytech" \in providerOk[i])
         => "bridge" \in providerOk[i]
    /\ (cpc[i] = "raised" /\ "bridge" \notin providerOk[i])
         => transfers[i].legs = <<>>

\* C21 witness: leg 1 has been initiated and recorded
C21_Witness ==
  \E i \in Stored :
    /\ HasLeg(transfers[i], "leg1")
    /\ transfers[i].legs["leg1"].status = "processing"
    /\ "paytech" \in providerOk[i]

\* the quote has expired at time t
Expired(quote, t) == quote.expiresAt < t

\* C22: a createTransfer call made with a quote that has already expired
\* stores nothing and starts no provider call.
C22_ExpiredQuoteRejected ==
  [][\A id \in TransferIds, r \in Recipients, q \in Quotes, p \in Ticks(6) :
       (CreateTransferStart(id, r, q, p) /\ Expired(q, Rd(p, 1)))
         => (transfers' = transfers /\ cpc'[id] \notin {"tempoAddr"})]_vars

\* exactly one settlement instrument is set
OneInstrument(recipient) == recipient.bankAccount # recipient.mobileWallet

\* C23: every stored transfer was created from a request whose recipient
\* has exactly one of bankAccount and mobileWallet.
C23_RecipientInstrument ==
  \A i \in Stored : OneInstrument(transfers[i].request.recipient)

\* C30: a transfer with status completed has leg1, leg2 and leg3 recorded,
\* each with leg status completed.
C30_CompletedHasAllLegs ==
  \A i \in Stored :
    transfers[i].status = "completed"
      => \A l \in {"leg1", "leg2", "leg3"} :
           /\ HasLeg(transfers[i], l)
           /\ transfers[i].legs[l].status = "completed"

\* C24: getTransferQuote returns a quote only when all three leg-quote
\* calls have resolved and none has rejected; when one rejects it raises
\* and returns no quote.
C24_AllOrNothing ==
  /\ quoting.result # {}
       => /\ quoting.pc = "returned"
          /\ DOMAIN quoting.resolved = Providers
          /\ quoting.rejected = {}
  /\ quoting.rejected # {}
       => (quoting.pc = "raised" /\ quoting.result = {})

\* C24 witness: a leg-quote call rejected after the other two had resolved
C24_Witness ==
  /\ quoting.pc = "raised"
  /\ Cardinality(DOMAIN quoting.resolved) = 2

\* C25: the unrounded receive amount is
\* (((sendAmount - fee1) * rate2 - fee2) - fee3) * rate3, and the returned
\* receiveAmount is that value rounded once.
C25_QuoteChaining ==
  quoting.pc = "returned"
    => LET s == quoting.sendAmount
           q1 == quoting.resolved["paytech"]
           q2 == quoting.resolved["bridge"]
           q3 == quoting.resolved["tempo"]
           exact == (((s - q1.fee) * q2.exchangeRate - q2.fee * Scale)
                       - q3.fee * Scale) * q3.exchangeRate
       IN /\ quoting.unrounded = exact
          /\ \A q \in quoting.result : q.receiveAmount = ToFixed2(exact)

\* C25 witness: a quote whose amount after leg 2 is not a whole number of
\* hundredths
C25_Witness ==
  /\ quoting.pc = "returned"
  /\ LET a == afterPaytech(quoting.sendAmount, quoting.resolved["paytech"])
     IN usdcAmount(a, quoting.resolved["bridge"]) % Scale # 0

C27_WebhookAuthenticity ==
  [][/\ \A id \in WebhookIds, st \in PaytechStatuses, p \in Ticks(3) :
         \A sig \in Signatures(id, PaytechStatuses) :
           (/\ PaytechWebhookRoute(id, st, sig, p)
            /\ sig # Hmac(WebhookSecret, Payload(id, st)))
             => (transfers' = transfers /\ outcome' = "rejected")
     /\ \A id \in WebhookIds, st \in BridgeStates :
         \A sig \in Signatures(id, BridgeStates) :
           (/\ BridgeWebhookRoute(id, st, sig)
            /\ sig # Hmac(WebhookSecret, Payload(id, st)))
             => (transfers' = transfers /\ outcome' = "rejected")]_vars

\* a step of an operation addressed to transfer id a: a segment of the
\* createTransfer invocation producing a, a call of a webhook handler with
\* a, or a later segment of a handleBridgeWebhook invocation called with a
AddressedTo(a) ==
  \/ /\ a \in TransferIds
     /\ \E r \in Recipients, q \in Quotes, p \in Ticks(6) :
          CreateTransferStart(a, r, q, p)
  \/ \E p \in Ticks(3) :
       /\ a \in TransferIds
       /\ \/ CreateTransferTempoAddress(a, p)
          \/ CreateTransferBridgeOk(a, p)
          \/ CreateTransferBridgeFail(a, p)
          \/ CreateTransferPaytechOk(a, p)
          \/ CreateTransferPaytechFail(a, p)
  \/ WebhookCall(a)
  \/ \E s \in Slots, p \in Ticks(2) :
       /\ bruns[s].id = a
       /\ BridgeCallTempo(s) \/ BridgeTempoOk(s, p) \/ BridgeTempoFail(s, p)

\* C28: a step of an operation addressed to transfer id a leaves the stored
\* record of every other id as it was.
C28_CrossTransferIsolation ==
  [][\A a \in WebhookIds :
       AddressedTo(a)
         => \A b \in Stored \ {a} :
              /\ b \in DOMAIN transfers'
              /\ transfers'[b] = transfers[b]]_vars

\* C28 witness: createTransfer for the second transfer is suspended at a
\* provider call while a handleBridgeWebhook invocation for the first one
\* is suspended at its own
C28_Witness ==
  /\ Stored = {1, 2}
  /\ cpc[2] \in {"tempoAddr", "bridgeAddr", "paytech"}
  /\ \E s \in Slots : bruns[s].pc \in {"quote", "pay"} /\ bruns[s].id = 1

\* C29: a stored id stays stored, and getTransfer keeps returning the
\* transfer of that id.
C29_NoDeletion ==
  [][\A i \in Stored :
       /\ i \in DOMAIN transfers'
       /\ getTransfer(i)' # {}
       /\ \A tr \in getTransfer(i)' : tr.id = i]_vars

\* C29 witness: a transfer that reached a terminal status is in the store
\* next to a transfer stored after it
C29_Witness ==
  /\ Stored = {1, 2}
  /\ transfers[1].status \in Terminal
  /\ getTransfer(1) # {}

\* C31: a stored transfer has completedAt set exactly when its status is
\* completed.
C31_CompletedAtIffCompleted ==
  \A i \in Stored :
    transfers[i].completedAt # NoTime <=> transfers[i].status = "completed"

\* the timeline shows a leg-1 'settled' webhook handled while createTransfer
\* was awaiting initiatePaytechTransfer
SettledDuringCommit(tr) ==
  \E j, k \in 1..Len(tr.timeline) :
    /\ j < k
    /\ tr.timeline[j].message = "paytech_init"
    /\ tr.timeline[k].message = "fiat_received"

\* C32: when createTransfer returns for a transfer whose leg-1 'settled'
\* webhook was handled while it awaited initiatePaytechTransfer, leg1 is
\* completed and a status of bridging has not been set back to processing.
C32_CommitWebhookInterleaving ==
  [][\A id \in TransferIds, p \in Ticks(3) :
       (/\ CreateTransferPaytechOk(id, p)
        /\ SettledDuringCommit(transfers[id]))
         => /\ transfers'[id].legs["leg1"].status = "completed"
            /\ transfers[id].status = "bridging"
                 => transfers'[id].status # "processing"]_vars

\* the statuses a stored transfer may show
StoredStatuses ==
  {"processing", "bridging", "converting", "settling", "completed", "failed"}

\* C33: every stored transfer has a non-empty timeline and a status other
\* than pending, kyc_required and cancelled.
C33_NeverInConstructionState ==
  \A i \in Stored :
    /\ transfers[i].timeline # <<>>
    /\ transfers[i].status \in StoredStatuses
    /\ transfers[i].status \notin {"pending", "kyc_required", "cancelled"}

\* C33 witness: a transfer is in the store while its createTransfer is
\* still at the first provider call
C33_Witness ==
  \E i \in Stored : cpc[i] = "tempoAddr" /\ Len(transfers[i].timeline) = 2

\* a call of a webhook handler for id i with a status token outside the
\* handler's recognised set
UnrecognizedCall(i) ==
  \/ \E st \in PaytechStatuses \ {"settled", "failed"}, p \in Ticks(3) :
       HandlePaytechWebhook(i, st, p)
  \/ \E s \in Slots, st \in BridgeStates \ {"payment_processed"},
        h \in TxHashes, p \in Ticks(5) :
       HandleBridgeWebhook(s, i, st, h, p)
  \/ \E st \in TempoStatuses \ {"settled", "completed", "failed", "rejected"},
        p \in Ticks(4) :
       HandleTempoWebhook(i, st, p)

\* C34: a webhook handler called for a stored transfer with a status token
\* it does not recognise returns without error and leaves the transfer as
\* it was.
C34_UnrecognizedTokenNoOp ==
  [][\A i \in Stored :
       UnrecognizedCall(i)
         => (transfers'[i] = transfers[i] /\ outcome' = "returned")]_vars

\* C34 witness: a handler has returned for a committed transfer whose
\* timeline still ends with the events of createTransfer
C34_Witness ==
  \E i \in Stored :
    /\ cpc[i] = "returned"
    /\ LastEvent(transfers[i]).message = "paytech_collecting"
    /\ outcome = "returned"
    /\ "tempo" \notin providerOk[i]

\* a later segment of a handleBridgeWebhook invocation called with id i
BridgeStep(i) ==
  \E s \in Slots, p \in Ticks(2) :
    /\ bruns[s].id = i
    /\ BridgeCallTempo(s) \/ BridgeTempoOk(s, p) \/ BridgeTempoFail(s, p)

\* C35: no webhook handler changes a stored transfer's id, quote, request
\* or createdAt; handlePaytechWebhook changes no leg but leg1,
\* handleTempoWebhook no leg but leg3, and handleBridgeWebhook never leg1.
C35_WebhookFrame ==
  [][\A i \in Stored :
       LET old == transfers[i]
           new == transfers'[i]
       IN /\ (WebhookCall(i) \/ BridgeStep(i))
               => /\ new.id = old.id
                  /\ new.quote = old.quote
                  /\ new.request = old.request
                  /\ new.createdAt = old.createdAt
          /\ PaytechCall(i)
               => /\ LegOf(new.legs, "leg2") = LegOf(old.legs, "leg2")
                  /\ LegOf(new.legs, "leg3") = LegOf(old.legs, "leg3")
          /\ TempoCall(i)
               => /\ LegOf(new.legs, "leg1") = LegOf(old.legs, "leg1")
                  /\ LegOf(new.legs, "leg2") = LegOf(old.legs, "leg2")
          /\ (BridgeCall(i) \/ BridgeStep(i))
               => LegOf(new.legs, "leg1") = LegOf(old.legs, "leg1")]_vars

\* C35 witness: handleBridgeWebhook has run to its end on a committed
\* transfer whose leg1 is still as createTransfer recorded it
C35_Witness ==
  \E i \in Stored :
    /\ {"leg1", "leg2", "leg3"} \subseteq DOMAIN transfers[i].legs
    /\ transfers[i].legs["leg1"].status = "processing"
    /\ transfers[i].legs["leg2"].status = "completed"
    /\ transfers[i].legs["leg3"].status = "processing"

\* C36: once leg2 is completed with a txHash, no step changes leg2.txHash
\* or leg2.completedAt.
C36_TxHashStable ==
  [][\A i \in Stored :
       (/\ HasLeg(transfers[i], "leg2")
        /\ transfers[i].legs["leg2"].status = "completed"
        /\ transfers[i].legs["leg2"].txHash # NoHash)
         => /\ transfers'[i].legs["leg2"].txHash =
                 transfers[i].legs["leg2"].txHash
            /\ transfers'[i].legs["leg2"].completedAt =
                 transfers[i].legs["leg2"].completedAt]_vars

====
